---- MODULE Spec2Model ----
(***************************************************************************)
(* Model of the EU-project analyzer: ProjectAnalyzer (scrapeProjects,      *)
(* analyzeProject, findOfficialWebsite) and the App component that owns    *)
(* the working set (projects), the selection and the analyzing flag.       *)
(*                                                                         *)
(* JavaScript values are modelled as follows.  An object is a TLA+ record  *)
(* whose domain is the set of keys holding a defined value, so an optional *)
(* field that is absent or undefined is a key outside the DOMAIN.  null is *)
(* the record Null.  A JSON text is modelled by the value it denotes, or   *)
(* by Malformed when it denotes none.                                      *)
(***************************************************************************)
EXTENDS Integers, Sequences, FiniteSets, TLC

\* Largest number of .project-item blocks on the listing page.
MaxItems == 2

(***************************************************************************)
(* JavaScript values                                                       *)
(***************************************************************************)
Null == [null |-> TRUE]

EmptyObject == [k \in {} |-> TRUE]

Has(o, k) == o # Null /\ k \in DOMAIN o

\* !o[k] for a string property: undefined and '' are falsy.
FalsyString(o, k) == IF Has(o, k) THEN o[k] = "" ELSE TRUE

\* !o[k] for a numeric property: undefined and 0 are falsy.
FalsyNumber(o, k) == IF Has(o, k) THEN o[k] = 0 ELSE TRUE

\* An Error object carries a message; anything else may be thrown as well.
Err(m) == [message |-> m]

IsError(e) == "message" \in DOMAIN e

NonError == [thrown |-> "non-Error value"]

\* Outcome of a call: a returned value or a thrown one.
Return(v) == [returns |-> v]

Throw(e) == [throws |-> e]

IsThrow(r) == "throws" \in DOMAIN r

ConfigMessage == "OpenAI API key is not configured. Please add your API key to the .env file as VITE_OPENAI_API_KEY."

SyntaxError == Err("Unexpected token < in JSON at position 0")

TypeErrorNull == Err("Cannot read properties of null (reading 'suitabilityScore')")

GenericMessage == "An error occurred during analysis"

(***************************************************************************)
(* The environment: what the three remote endpoints may answer             *)
(***************************************************************************)
\* A .project-item block: the text of .project-title and of
\* .project-description, and the href of its first anchor when it has one.
ItemBlocks ==
  { [title |-> " CleanSeas ", description |-> "Ocean plastics education",
     href |-> "https://ied.eu/cleanseas"],
    [title |-> "", description |-> ""] }

RECURSIVE SeqsUpTo(_, _)
SeqsUpTo(S, n) ==
  IF n = 0 THEN {<<>>}
  ELSE LET shorter == SeqsUpTo(S, n - 1)
       IN shorter \cup {Append(s, x) : s \in {t \in shorter : Len(t) = n - 1}, x \in S}

\* Answers to the GET of the listing page: a transport failure, or a page
\* with 0..MaxItems item blocks.
ListingResponses ==
  {Throw(Err("Network Error"))} \cup {Return([items |-> s]) : s \in SeqsUpTo(ItemBlocks, MaxItems)}

\* Answers of the search endpoint: failure, a body that is not an object,
\* a body without AbstractURL, an empty AbstractURL, a URL.
SearchResponses ==
  { Throw(Err("Network Error")),
    Return([data |-> Null]),
    Return([data |-> EmptyObject]),
    Return([data |-> [AbstractURL |-> ""]]),
    Return([data |-> [AbstractURL |-> "https://cleanseas.eu"]]) }

Text(v) == [denotes |-> v]

Malformed == [malformed |-> TRUE]

GoodAnalysis ==
  [suitabilityScore |-> 82, category |-> "school", educationalPlan |-> "Grade 9 unit",
   recommendations |-> <<"Use in grade 9 science">>]

\* A JSON object that leaves out educationalPlan and recommendations and
\* whose category is outside the enumeration.
PartialAnalysis == [suitabilityScore |-> 50, category |-> "university"]

\* A completion whose first choice carries the given message content.
Completion(content) == Return([choices |-> <<[message |-> [content |-> content]]>>])

\* Answers of openai.chat.completions.create: a rejection with an Error (here
\* one constructed without a message) or with a value that is no Error, or
\* a completion whose content is null, is no JSON text, or denotes null, an
\* empty object, a complete result or an incomplete one.  (A rejection with
\* an Error that has a message takes the same path as Malformed does.)
CompletionOutcomes ==
  { Throw(Err("")),
    Throw(NonError),
    Completion(Null),
    Completion(Malformed),
    Completion(Text(Null)),
    Completion(Text(EmptyObject)),
    Completion(Text(GoodAnalysis)),
    Completion(Text(PartialAnalysis)) }

(***************************************************************************)
(* ProjectAnalyzer                                                         *)
(***************************************************************************)
\* String.prototype.trim on the texts of ItemBlocks.
Trim(s) == IF s = " CleanSeas " THEN "CleanSeas" ELSE s

\* crypto.randomUUID(): the n-th identifier issued, different from the ones
\* issued before.  A UUID is a non-empty string, modelled as a non-empty
\* sequence; the empty string is the empty sequence.
randomUUID(n) == <<"uuid", n>>

Categories == {"school", "adult", "both", "unsuitable"}

\* The record pushed for one .project-item block; issued = UUIDs issued so far.
\* attr('href') || '' gives the empty string for a block without anchor.
ScrapedProject(block, issued) ==
  [id |-> randomUUID(issued + 1),
   name |-> Trim(block.title),
   description |-> Trim(block.description),
   url |-> IF FalsyString(block, "href") THEN "" ELSE block.href,
   category |-> "unsuitable"]

\* ProjectAnalyzer.scrapeProjects: one record per block, in document order;
\* the empty list when the GET fails.
scrapeProjects(response, issued) ==
  IF IsThrow(response) THEN <<>>
  ELSE [i \in 1..Len(response.returns.items) |->
          ScrapedProject(response.returns.items[i], issued + i - 1)]

\* ProjectAnalyzer.findOfficialWebsite: response.data.AbstractURL || '';
\* every exception (the GET, or reading a property of null) gives ''.
findOfficialWebsite(projectName, response) ==
  IF IsThrow(response) THEN ""
  ELSE IF response.returns.data = Null THEN ""
  ELSE IF FalsyString(response.returns.data, "AbstractURL") THEN ""
  ELSE response.returns.data.AbstractURL

\* JSON.parse.
JSONParse(text) == IF text = Malformed THEN Throw(SyntaxError) ELSE Return(text.denotes)

\* (variant: the catch block ignores the error's message)
DegradedAnalysisMessageBug(e) ==
  [suitabilityScore |-> 0,
   category |-> "unsuitable",
   educationalPlan |-> "Analysis failed",
   recommendations |-> <<>>]

\* The catch block of analyzeProject.
DegradedAnalysis(e) ==
  [suitabilityScore |-> 0,
   category |-> "unsuitable",
   educationalPlan |-> IF IsError(e) THEN e.message ELSE "Analysis failed",
   recommendations |-> <<>>]

\* ProjectAnalyzer.analyzeProject, for the module-level client and the answer
\* of the completion endpoint.
analyzeProject(client, project, outcome) ==
  IF client = Null THEN Throw(Err(ConfigMessage))
  ELSE IF IsThrow(outcome) THEN Return(DegradedAnalysis(outcome.throws))
  ELSE LET content == outcome.returns.choices[1].message.content
           text == IF content = Null THEN Text(EmptyObject) ELSE content
           parsed == JSONParse(text)
       IN IF IsThrow(parsed) THEN Return(DegradedAnalysis(parsed.throws)) ELSE parsed

(***************************************************************************)
(* App                                                                     *)
(***************************************************************************)
VARIABLES
  apiKey,           \* import.meta.env.VITE_OPENAI_API_KEY is set
  openai,           \* the module-level client, or Null
  projects,         \* useState: the working set
  loading,          \* useState
  analyzing,        \* useState
  selectedProject,  \* useState: a project or Null
  error,            \* useState: Null, or Err(m) for the message m shown
  mount,            \* position of the mount effect: "effect", "scrapeProjects", "done"
  calls,            \* the invocations of App.analyzeProject in flight
  issued,           \* number of UUIDs issued so far
  page,             \* what the GET of the listing page gave; Null before
  settled           \* the invocation of App.analyzeProject that finished in the
                    \* step just taken (its argument and what its two
                    \* sub-calls gave); Null after any other step

vars == <<apiKey, openai, projects, loading, analyzing, selectedProject, error,
          mount, calls, issued, page, settled>>

Client == [apiKey |-> TRUE, dangerouslyAllowBrowser |-> TRUE]

\* Module initialisation of projectAnalyzer.ts and the useState initialisers.
\* The client is built only when the key is set, and building it may throw.
Init ==
  /\ apiKey \in BOOLEAN
  /\ openai \in (IF apiKey THEN {Client, Null} ELSE {Null})
  /\ projects = <<>>
  /\ loading = TRUE
  /\ analyzing = FALSE
  /\ selectedProject = Null
  /\ error = Null
  /\ mount = "effect"
  /\ calls = {}
  /\ issued = 0
  /\ page = Null
  /\ settled = Null

\* useEffect(() => loadProjects(), []) up to the await of scrapeProjects.
loadProjects ==
  /\ mount = "effect"
  /\ mount' = "scrapeProjects"
  /\ loading' = TRUE
  /\ settled' = Null
  /\ UNCHANGED <<apiKey, openai, projects, analyzing, selectedProject, error,
                 calls, issued, page>>

\* The listing GET settles: scrapeProjects returns and loadProjects finishes.
scrapeProjectsReturns ==
  /\ mount = "scrapeProjects"
  /\ \E response \in ListingResponses :
       LET scrapedProjects == scrapeProjects(response, issued)
       IN /\ page' = response
          /\ projects' = scrapedProjects
          /\ issued' = issued + Len(scrapedProjects)
  /\ loading' = FALSE
  /\ mount' = "done"
  /\ settled' = Null
  /\ UNCHANGED <<apiKey, openai, analyzing, selectedProject, error, calls>>

\* A click on an entry of the list, which is rendered when not loading.  The
\* list shows the entries of projects that pass the category filter; the
\* filter is 'all' from the start and every entry can be shown under it.
selectProject ==
  /\ ~loading
  /\ \E i \in 1..Len(projects) :
       /\ selectedProject # projects[i]
       /\ selectedProject' = projects[i]
  /\ settled' = Null
  /\ UNCHANGED <<apiKey, openai, projects, loading, analyzing, error,
                 mount, calls, issued, page>>

\* (variant: the button is not disabled while analyzing)
AnalyzeButtonEnabledNoFlag ==
  /\ selectedProject # Null
  /\ FalsyNumber(selectedProject, "suitabilityScore")
  /\ apiKey

\* The Analyze button is rendered for a selected project without a truthy
\* score, and is disabled while analyzing or without the key.
AnalyzeButtonEnabled ==
  /\ selectedProject # Null
  /\ FalsyNumber(selectedProject, "suitabilityScore")
  /\ ~(analyzing \/ ~apiKey)

\* App.analyzeProject up to the await of findOfficialWebsite.
analyzeClick ==
  /\ AnalyzeButtonEnabled
  /\ analyzing' = TRUE
  /\ error' = Null
  /\ calls' = calls \cup {[project |-> selectedProject, pc |-> "findOfficialWebsite"]}
  /\ settled' = Null
  /\ UNCHANGED <<apiKey, openai, projects, loading, selectedProject, mount,
                 issued, page>>

AnalysisFields == {"suitabilityScore", "category", "educationalPlan"}

\* (variant: the object literal without the spread of project, keeping its id)
updatedProjectNoSpread(project, officialWebsite, analysis) ==
  [k \in {"id", "officialWebsite"} \cup (AnalysisFields \cap DOMAIN analysis) |->
     IF k = "officialWebsite" THEN officialWebsite
     ELSE IF k \in AnalysisFields THEN analysis[k]
     ELSE project[k]]

\* { ...project, officialWebsite, suitabilityScore: analysis.suitabilityScore,
\*   category: analysis.category, educationalPlan: analysis.educationalPlan }
updatedProject(project, officialWebsite, analysis) ==
  [k \in ((DOMAIN project) \ AnalysisFields) \cup {"officialWebsite"}
           \cup (AnalysisFields \cap DOMAIN analysis) |->
     IF k = "officialWebsite" THEN officialWebsite
     ELSE IF k \in AnalysisFields THEN analysis[k]
     ELSE project[k]]

\* (variant: the entries are matched by name)
ReplaceByName(prev, project, updated) ==
  [i \in 1..Len(prev) |-> IF prev[i].name = project.name THEN updated ELSE prev[i]]

\* prev.map(p => p.id === project.id ? updatedProject : p)
ReplaceById(prev, project, updated) ==
  [i \in 1..Len(prev) |-> IF prev[i].id = project.id THEN updated ELSE prev[i]]

\* The rest of App.analyzeProject once both sub-calls have settled: the merge,
\* or the catch block, and setAnalyzing(false).  completion is what the
\* completion endpoint answered (Null when it was not asked) and analysis the
\* outcome of ProjectAnalyzer.analyzeProject.
Finish(c, officialWebsite, completion, analysis) ==
  /\ calls' = calls \ {c}
  /\ analyzing' = FALSE
  /\ settled' = [project |-> c.project, officialWebsite |-> officialWebsite,
                 completion |-> completion, analysis |-> analysis]
  /\ IF IsThrow(analysis)
       THEN /\ error' = IF IsError(analysis.throws) THEN Err(analysis.throws.message)
                        ELSE Err(GenericMessage)
            /\ UNCHANGED <<projects, selectedProject>>
     ELSE IF analysis.returns = Null
       THEN /\ error' = Err(TypeErrorNull.message)
            /\ UNCHANGED <<projects, selectedProject>>
     ELSE LET updated == updatedProject(c.project, officialWebsite, analysis.returns)
          IN /\ projects' = ReplaceById(projects, c.project, updated)
             /\ selectedProject' = updated
             /\ UNCHANGED error

\* The search GET settles.  App.analyzeProject then calls
\* ProjectAnalyzer.analyzeProject, which rejects at once without a client;
\* otherwise the completion request is issued.
findOfficialWebsiteReturns ==
  \E c \in calls, response \in SearchResponses :
    /\ c.pc = "findOfficialWebsite"
    /\ LET officialWebsite == findOfficialWebsite(c.project.name, response)
       IN IF openai = Null
            THEN Finish(c, officialWebsite, Null, analyzeProject(openai, c.project, Null))
            ELSE /\ calls' = (calls \ {c}) \cup
                       {[project |-> c.project, pc |-> "analyzeProject",
                         officialWebsite |-> officialWebsite]}
                 /\ settled' = Null
                 /\ UNCHANGED <<projects, analyzing, selectedProject, error>>
    /\ UNCHANGED <<apiKey, openai, loading, mount, issued, page>>

\* The completion request settles; the invocation runs to its end.
analyzeProjectReturns ==
  \E c \in calls, outcome \in CompletionOutcomes :
    /\ c.pc = "analyzeProject"
    /\ Finish(c, c.officialWebsite, outcome, analyzeProject(openai, c.project, outcome))
    /\ UNCHANGED <<apiKey, openai, loading, mount, issued, page>>

Next ==
  \/ loadProjects
  \/ scrapeProjectsReturns
  \/ selectProject
  \/ analyzeClick
  \/ findOfficialWebsiteReturns
  \/ analyzeProjectReturns

Spec == Init /\ [][Next]_vars

\* Every request that was issued settles (with an answer or a failure).
FairSpec ==
  /\ Spec
  /\ WF_vars(findOfficialWebsiteReturns)
  /\ WF_vars(analyzeProjectReturns)

(***************************************************************************)
(* Properties                                                              *)
(***************************************************************************)
\* An invocation of App.analyzeProject has just finished.
Settled == settled # Null

\* ... and ProjectAnalyzer.analyzeProject did not throw in it.
ClassifierReturned == IF Settled THEN ~IsThrow(settled.analysis) ELSE FALSE

\* ... and the merge of lines 33-44 was carried out.
Merged == IF ClassifierReturned THEN settled.analysis.returns # Null ELSE FALSE

\* The invocation ended in the catch block of App.analyzeProject.
Raised == Settled /\ error # Null

\* Field k of record p is exactly what object a holds for key k.
SameField(p, a, k) == IF Has(a, k) THEN Has(p, k) /\ p[k] = a[k] ELSE ~Has(p, k)

\* The entries of the working set whose id is the given one.
Entries(id) == {i \in 1..Len(projects) : projects[i].id = id}

\* The completion call raised, or its text is not parseable JSON.
ClassificationFailed(completion) ==
  IF IsThrow(completion) THEN TRUE
  ELSE completion.returns.choices[1].message.content = Malformed

\* C1: whenever the Resolver and the Classifier both return (neither raises),
\* analyzeOne produces a record (no exception) whose id is the input's id and
\* whose officialWebsite, suitabilityScore, category and educationalPlan are
\* exactly the values the two sub-calls returned in that invocation.
C1_RecordReflectsSubCalls ==
  ClassifierReturned =>
    /\ ~Raised
    /\ selectedProject.id = settled.project.id
    /\ Has(selectedProject, "officialWebsite")
    /\ selectedProject.officialWebsite = settled.officialWebsite
    /\ \A k \in AnalysisFields : SameField(selectedProject, settled.analysis.returns, k)

\* Supporting C1: whenever the merge is carried out, the record it produces
\* has the input's id and exactly the values the two sub-calls returned.
MergedRecordReflectsSubCalls ==
  Merged =>
    /\ ~Raised
    /\ selectedProject.id = settled.project.id
    /\ Has(selectedProject, "officialWebsite")
    /\ selectedProject.officialWebsite = settled.officialWebsite
    /\ \A k \in AnalysisFields : SameField(selectedProject, settled.analysis.returns, k)
    /\ \A i \in Entries(settled.project.id) : projects[i] = selectedProject

\* C2: after analyzeOne completes, the resulting record carries the
\* Classifier's recommendations (the list of the completion endpoint, or the
\* empty sequence of a degraded result).
C2_RecordCarriesRecommendations ==
  Merged =>
    (Has(settled.analysis.returns, "recommendations") =>
       \/ /\ Has(selectedProject, "recommendations")
          /\ selectedProject.recommendations = settled.analysis.returns.recommendations
       \/ /\ Has(selectedProject, "results")
          /\ selectedProject.results = settled.analysis.returns.recommendations)

\* C3: in every reachable state, a record of the working set that has a
\* suitabilityScore also has a category and an educationalPlan.
C3_NoPartialMerge ==
  \A i \in 1..Len(projects) :
    Has(projects[i], "suitabilityScore") =>
      Has(projects[i], "category") /\ Has(projects[i], "educationalPlan")

\* C4: in every reachable state, the category of every record of the working
\* set is present and is one of school, adult, both, unsuitable.
C4_CategoryEnumerated ==
  \A i \in 1..Len(projects) :
    Has(projects[i], "category") /\ projects[i].category \in Categories

\* C5: the Classifier raises exactly when no client is configured, and an
\* invocation of analyzeOne ends in an exception exactly in that case: no other
\* failure of the Classifier or the Resolver crosses its boundary.
C5_OnlyConfigurationErrorCrosses ==
  Settled =>
    /\ IsThrow(settled.analysis) <=> openai = Null
    /\ Raised <=> openai = Null

\* Supporting C5: the Classifier raises exactly when no client is configured.
ClassifierRaisesIffNoClient ==
  Settled => (IsThrow(settled.analysis) <=> openai = Null)

PageItems == IF IsThrow(page) THEN <<>> ELSE page.returns.items

RequiredFields == {"id", "name", "description", "url", "category"}

\* C7: once the listing of N item blocks is loaded, the working set has
\* exactly N records, in document order, with non-empty pairwise distinct
\* ids; a record no analysis was merged into has category unsuitable and no
\* optional field; and this stays so through every later merge.
C7_ListingRecords ==
  mount = "done" =>
    /\ Len(projects) = Len(PageItems)
    /\ \A i \in 1..Len(projects) :
         /\ Has(projects[i], "id") /\ projects[i].id # <<>>
         /\ Has(projects[i], "name") /\ projects[i].name = Trim(PageItems[i].title)
         /\ Has(projects[i], "description")
         /\ projects[i].description = Trim(PageItems[i].description)
         /\ Has(projects[i], "url")
         /\ projects[i].url = (IF Has(PageItems[i], "href") THEN PageItems[i].href ELSE "")
         /\ ~Has(projects[i], "officialWebsite") =>
              /\ DOMAIN projects[i] = RequiredFields
              /\ projects[i].category = "unsuitable"
    /\ \A i, j \in 1..Len(projects) : projects[i].id = projects[j].id => i = j

\* Two blocks of the same name were listed and an analysis was merged into
\* the second of them.
C7_Witness ==
  /\ mount = "done"
  /\ Len(projects) = MaxItems
  /\ projects[1].name = projects[MaxItems].name
  /\ ~Has(projects[1], "officialWebsite")
  /\ Has(projects[MaxItems], "officialWebsite")

\* C8: a Resolver success during analyzeOne is merged into the record of the
\* working set whatever the classification outcome is (success, degraded
\* result or ConfigurationError).
C8_WebsiteMergedIndependently ==
  (Settled /\ settled.officialWebsite # "") =>
    \A i \in Entries(settled.project.id) :
      /\ Has(projects[i], "officialWebsite")
      /\ projects[i].officialWebsite = settled.officialWebsite

\* The fields the Fetcher sets and no analysis is to change.
Scraped(p) == [k \in {"id", "name", "description", "url"} \cap DOMAIN p |-> p[k]]

\* C9: the step that finishes an analyzeOne keeps the length and order of the
\* working set, every entry whose id is not the analyzed project's, and the
\* id, name, description and url of every entry; when analyzeOne raises, the
\* working set and the selected project are unchanged.
C9_MergeFrame ==
  [][ (settled' # Null) =>
        /\ Len(projects') = Len(projects)
        /\ \A i \in 1..Len(projects) :
             /\ Scraped(projects'[i]) = Scraped(projects[i])
             /\ DOMAIN Scraped(projects'[i]) = {"id", "name", "description", "url"}
             /\ projects[i].id # settled'.project.id => projects'[i] = projects[i]
        /\ Cardinality({i \in 1..Len(projects) : projects'[i] # projects[i]}) <= 1
        /\ error' # Null => (projects' = projects /\ selectedProject' = selectedProject)
    ]_vars

\* An analysis was merged into one of two records.
C9_Witness ==
  /\ Merged
  /\ Len(projects) = MaxItems
  /\ Cardinality({i \in 1..Len(projects) : Has(projects[i], "suitabilityScore")}) = 1

\* C10: at most one analyzeOne is in flight, the analyzing flag is true
\* exactly while one is, and every analysis that was started eventually
\* clears the flag.
C10_AnalysesSerialized ==
  /\ [](Cardinality(calls) <= 1 /\ (analyzing <=> calls # {}))
  /\ (analyzing ~> ~analyzing)

\* An analysis is in flight while the project now selected could be analyzed
\* but for the flag.
C10_Witness ==
  /\ analyzing
  /\ calls # {}
  /\ AnalyzeButtonEnabledNoFlag
  /\ \A c \in calls : c.project.id # selectedProject.id

====
